---- MODULE Spec2Model ----
(***************************************************************************)
(* Gamerz real-time room messaging.                                        *)
(*                                                                         *)
(* The model covers the Socket.IO server (backend/src/utils/socket.ts):    *)
(* the authentication middleware, the join_room / leave_room /             *)
(* new_message / disconnect handlers; the message endpoints of the         *)
(* chatroom router (POST /:id/messages and POST /:id/messages/direct);     *)
(* and the client's SocketProvider.sendMessage, which persists a message   *)
(* over HTTP and then emits it on the socket.                              *)
(*                                                                         *)
(* Every server emit is recorded in `bcasts` together with the room        *)
(* roster at that instant; `inbox[c]` lists, in arrival order, the emits   *)
(* connection c actually received.                                         *)
(***************************************************************************)
EXTENDS Integers, Sequences, FiniteSets

VARIABLES
    cstate,   \* lifecycle of each server-side socket
    data,     \* socket.data.user of each socket (None before authentication)
    rooms,    \* Socket.IO adapter rooms: room id -> set of member sockets
    bcasts,   \* log of the server's emits
    inbox,    \* per socket: indices into bcasts of the events it received
    sends,    \* the client's sendMessage calls
    store,    \* the Message collection
    client,   \* the browser followed through SocketProvider and ChatroomPage
    replies   \* log of the answers of the message endpoints

vars == <<cstate, data, rooms, bcasts, inbox, sends, store, client, replies>>

\* What the socket server and sendMessage never touch.
browser == <<client, replies>>

(***************************************************************************)
(* Bounds of the model.                                                    *)
(***************************************************************************)
MaxOps == 3       \* socket operations and sendMessage calls in one run
MaxStore == 2     \* documents written by direct HTTP requests in one run
MaxWire == 2      \* packets of the browser waiting on the wire or in its buffer
MaxReplies == 2   \* send attempts whose answers are logged in one run

(***************************************************************************)
(* Identifiers.                                                            *)
(***************************************************************************)
Conn == {"c1", "c2"}
Room == {"r1", "r2"}
None == "none"

\* User documents: _id -> status (models/User status enum).
Users == {"alice", "bob", "carol", "dave"}

StatusOf(u) ==
    CASE u = "alice" -> "approved"
      [] u = "bob" -> "approved"
      [] u = "carol" -> "pending"
      [] u = "dave" -> "banned"
      [] OTHER -> None

\* The token a client presents in the handshake or as a credential:
\* <<"absent", None>> is no token, <<"forged", u>> fails jwt.verify,
\* <<"jwt", u>> is a token signed by the server for userId u.  "ghost" is
\* a userId with no user document.
NoToken == <<"absent", None>>
TokenOf(u) == <<"jwt", u>>
ForgedToken(u) == <<"forged", u>>

\* The accounts the browser behind each socket may be logged in with.
SlotUsers(c) ==
    CASE c = "c1" -> {"alice"}
      [] c = "c2" -> {"alice", "bob", "carol"}

HandshakeTokens(c) ==
    {NoToken, ForgedToken("alice"), TokenOf("ghost")}
        \cup {TokenOf(u) : u \in SlotUsers(c)}

\* verifyToken: the decoded userId, or None when jwt.verify throws.
verifyToken(token) == IF token[1] = "jwt" THEN token[2] ELSE None

\* (variant: the decoded userId is trusted without a lookup)
findByIdUnchecked(userId) == userId

\* User.findById
findById(userId) == IF userId \in Users THEN userId ELSE None

(***************************************************************************)
(* io.use(...): the authentication middleware.  The user attached to       *)
(* socket.data, or None when next() is called with an error.               *)
(***************************************************************************)
AuthUser(token) ==
    IF token = NoToken THEN None
    ELSE IF verifyToken(token) = None THEN None
    ELSE findById(verifyToken(token))

(***************************************************************************)
(* Message content.  A string is modelled by its padding (leading and      *)
(* trailing white space) and its core (what trim() keeps).                 *)
(***************************************************************************)
MaxContentLen == 1000

Text(pad, core) == [pad |-> pad, core |-> core]
Length(content) == content.pad + content.core
Trim(content) == Text(0, content.core)
Falsy(content) == Length(content) = 0

Empty == Text(0, 0)
Hello == Text(0, 2)

\* A message as it travels: the Message document, or what a client made up.
\* id 0 is a message with no _id.
Msg(id, roomId, senderId, content) ==
    [id |-> id, roomId |-> roomId, senderId |-> senderId, content |-> content]
NoMsg == Msg(0, None, None, Empty)

\* The browser before SocketProvider has run: alice is logged in, no socket
\* has been created, the chatroom page is not shown.
\*   user        useAuth().user is set
\*   socket      the provider's `socket` state is set
\*   sock        the socket.io-client instance: "none", "opening", "open",
\*               "lost" (transport closed or attempt failed), "closed"
\*               (disconnect() was called)
\*   isConnected the provider's `isConnected` state
\*   error       the provider's `error` state is set
\*   timer       a reconnect timer of the connect_error handler is armed
\*   page        ChatroomPage: "away", "idle" (mounted, last effect run set
\*               up nothing), "listening" (last effect run joined and
\*               registered the new_message listener)
\*   out, buffer packets on their way to the server; packets emitted while
\*               the socket was not open
\*   closedBy    which code last called disconnect(): "none", "cleanup",
\*               "logout"
\*   joined      the server has handled a join_room of the current connection
\*   dropped     the transport of an open socket has dropped at least once
\*   fetch, snapshot, messages, seen   the message list of the page
NoClient ==
    [user |-> TRUE, socket |-> FALSE, sock |-> "none", isConnected |-> FALSE,
     error |-> FALSE, timer |-> FALSE, page |-> "away",
     out |-> <<>>, buffer |-> <<>>, closedBy |-> "none", joined |-> FALSE,
     dropped |-> FALSE,
     fetch |-> "none", snapshot |-> <<>>, messages |-> <<>>, seen |-> 0]

Init ==
    /\ cstate = [c \in Conn |-> "Connecting"]
    /\ data = [c \in Conn |-> None]
    /\ rooms = [r \in Room |-> {}]
    /\ bcasts = <<>>
    /\ inbox = [c \in Conn |-> <<>>]
    /\ sends = <<>>
    /\ store = <<>>
    /\ client = NoClient
    /\ replies = <<>>

(***************************************************************************)
(* A client opens a socket with `token`.  The middleware either refuses    *)
(* the connection or attaches the user and lets io.on("connection") run.   *)
(***************************************************************************)
Connect(c, token) ==
    /\ cstate[c] = "Connecting"
    /\ IF AuthUser(token) = None
       THEN /\ cstate' = [cstate EXCEPT ![c] = "Disconnected"]
            /\ data' = data
       ELSE /\ cstate' = [cstate EXCEPT ![c] = "Ready"]
            /\ data' = [data EXCEPT ![c] = AuthUser(token)]
    /\ UNCHANGED <<rooms, bcasts, inbox, sends, store>>

(***************************************************************************)
(* Emitting.  An emit is written to the transport of every target socket   *)
(* and is not awaited; a socket whose transport has dropped ("Stale": the  *)
(* server has not yet seen the close) does not get the packet.             *)
(***************************************************************************)
\* (variant: the fan-out stops at the first socket it cannot write to)
DeliveredUntilFailure(targets) ==
    IF \E t \in targets : cstate[t] # "Ready" THEN {} ELSE targets

Delivered(targets) == {t \in targets : cstate[t] = "Ready"}

\* (variant: a socket gets a later packet ahead of the earlier ones)
EmitOutOfOrder(kind, roomId, from, msg, roster, targets, att) ==
    /\ bcasts' = Append(bcasts,
          [kind |-> kind, room |-> roomId, from |-> from, msg |-> msg,
           members |-> roster, targets |-> targets,
           failed |-> {t \in roster : cstate[t] = "Stale"}, att |-> att])
    /\ inbox' = [t \in Conn |->
          IF t \in Delivered(targets)
          THEN <<Len(bcasts) + 1>> \o inbox[t]
          ELSE inbox[t]]

\* (variant: a socket that joins is sent the earlier messages of the room)
EmitWithReplay(kind, roomId, from, msg, roster, targets, att) ==
    LET Earlier(k) == bcasts[k].kind = "new_message" /\ bcasts[k].room = roomId
        history == SelectSeq([k \in 1..Len(bcasts) |-> k], Earlier)
    IN
    /\ bcasts' = Append(bcasts,
          [kind |-> kind, room |-> roomId, from |-> from, msg |-> msg,
           members |-> roster, targets |-> targets,
           failed |-> {t \in roster : cstate[t] = "Stale"}, att |-> att])
    /\ inbox' = [t \in Conn |->
          IF t \in Delivered(targets)
          THEN Append(inbox[t], Len(bcasts) + 1)
          ELSE IF t = from /\ kind = "user_joined"
          THEN inbox[t] \o history
          ELSE inbox[t]]

\* (variant: the packets to the second socket overtake one another)
EmitSkewed(kind, roomId, from, msg, roster, targets, att) ==
    /\ bcasts' = Append(bcasts,
          [kind |-> kind, room |-> roomId, from |-> from, msg |-> msg,
           members |-> roster, targets |-> targets,
           failed |-> {t \in roster : cstate[t] = "Stale"}, att |-> att])
    /\ inbox' = [t \in Conn |->
          IF t \in Delivered(targets)
          THEN IF t = "c2" THEN <<Len(bcasts) + 1>> \o inbox[t]
               ELSE Append(inbox[t], Len(bcasts) + 1)
          ELSE inbox[t]]

\* What the server does for one emit: log it, with the roster of the room
\* at that instant, and append it to the inbox of each socket reached.
Emit(kind, roomId, from, msg, roster, targets, att) ==
    /\ bcasts' = Append(bcasts,
          [kind |-> kind, room |-> roomId, from |-> from, msg |-> msg,
           members |-> roster, targets |-> targets,
           failed |-> {t \in roster : cstate[t] = "Stale"}, att |-> att])
    /\ inbox' = [t \in Conn |->
          IF t \in Delivered(targets)
          THEN Append(inbox[t], Len(bcasts) + 1)
          ELSE inbox[t]]

\* The run may record one more operation.  A sendMessage call counts
\* from its start, whether or not it comes to emit.
Pending == {a \in DOMAIN sends : ~sends[a].emitted}
HasBudget == Len(bcasts) + Cardinality(Pending) < MaxOps

\* (variant: io.to(roomId), which includes the emitting socket)
SocketToAll(c, roster) == roster

\* socket.to(roomId): every socket of the room but the emitting one.
SocketTo(c, roster) == roster \ {c}

(***************************************************************************)
(* socket.on(JOIN_ROOM)                                                    *)
(***************************************************************************)
JoinRoom(c, roomId) ==
    /\ cstate[c] = "Ready"
    /\ HasBudget
    /\ rooms' = [rooms EXCEPT ![roomId] = @ \cup {c}]
    /\ Emit("user_joined", roomId, c, NoMsg, rooms[roomId] \cup {c},
            SocketTo(c, rooms[roomId] \cup {c}), 0)
    /\ UNCHANGED <<cstate, data, sends, store>>

(***************************************************************************)
(* socket.on(LEAVE_ROOM)                                                   *)
(***************************************************************************)
LeaveRoom(c, roomId) ==
    /\ cstate[c] = "Ready"
    /\ HasBudget
    /\ rooms' = [rooms EXCEPT ![roomId] = @ \ {c}]
    /\ Emit("user_left", roomId, c, NoMsg, rooms[roomId] \ {c},
            SocketTo(c, rooms[roomId] \ {c}), 0)
    /\ UNCHANGED <<cstate, data, sends, store>>

(***************************************************************************)
(* socket.on(NEW_MESSAGE)                                                  *)
(***************************************************************************)
\* The validation of the handler: roomId and content must be truthy.
ValidMessage(message) == message.roomId # None /\ ~Falsy(message.content)

\* The roster of a room id (a room nobody joined has no sockets).
Roster(roomId) == IF roomId \in Room THEN rooms[roomId] ELSE {}

\* (variant: socket.to(roomId), which leaves the emitting socket out)
NewMessageTargetsButSender(c, roomId) == Roster(roomId) \ {c}

\* (variant: io.emit, which reaches every connected socket)
NewMessageTargetsEverybody(c, roomId) ==
    {t \in Conn : cstate[t] \in {"Ready", "Stale"}}

\* (variant: the room is kept per user, so that every socket of a user
\* with a socket in the room is reached)
NewMessageTargetsOfUser(c, roomId) ==
    {t \in Conn : /\ cstate[t] \in {"Ready", "Stale"}
                  /\ \E m \in Roster(roomId) : data[m] = data[t]}

\* (variant: only a member of the room can send to it)
NewMessageTargetsIfMember(c, roomId) ==
    IF c \in Roster(roomId) THEN Roster(roomId) ELSE {}

\* io.to(roomId): every socket of the room, the emitting one included.
NewMessageTargets(c, roomId) == Roster(roomId)

\* The handler for `message` emitted by socket c; att is the sendMessage
\* call the packet comes from (0: emitted by the client directly).
NewMessage(c, message, att) ==
    /\ IF ValidMessage(message)
       THEN Emit("new_message", message.roomId, c, message,
                 Roster(message.roomId),
                 NewMessageTargets(c, message.roomId), att)
       ELSE Emit("error", None, c, message, {}, {c}, att)

\* Payloads a client can make up without persisting anything.
Forged ==
    { Msg(0, "r1", "alice", Hello),
      Msg(0, None, "alice", Hello) }

StoredMsg(d) == Msg(d.id, d.roomId, d.senderId, d.content)

RawPayloads == Forged \cup {StoredMsg(store[i]) : i \in DOMAIN store}

EmitNewMessage(c, message) ==
    /\ cstate[c] = "Ready"
    /\ HasBudget
    /\ NewMessage(c, message, 0)
    /\ UNCHANGED <<cstate, data, rooms, sends, store>>

(***************************************************************************)
(* The transport of socket c drops: the client sees "disconnect"           *)
(* (isConnected := false); the server has not yet noticed.                 *)
(***************************************************************************)
TransportDrop(c) ==
    /\ cstate[c] = "Ready"
    /\ cstate' = [cstate EXCEPT ![c] = "Stale"]
    /\ UNCHANGED <<data, rooms, bcasts, inbox, sends, store>>

(***************************************************************************)
(* socket.on("disconnect").  Socket.IO takes the socket out of all its     *)
(* rooms before it fires the event; the handler itself only logs.          *)
(***************************************************************************)
\* (variant: the rooms keep the socket)
LeaveNothing(c) == rooms

LeaveAll(c) == [r \in Room |-> rooms[r] \ {c}]

Disconnect(c) ==
    /\ cstate[c] \in {"Ready", "Stale"}
    /\ cstate' = [cstate EXCEPT ![c] = "Disconnected"]
    /\ rooms' = LeaveAll(c)
    /\ UNCHANGED <<data, bcasts, inbox, sends, store>>

(***************************************************************************)
(* The chatroom router.  A request is (id, token, body): the :id of the    *)
(* URL, the credential it carries and its JSON body.                       *)
(***************************************************************************)
Body(content, userId, userStatus) ==
    [content |-> content, userId |-> userId, userStatus |-> userStatus]

\* mongoose.Types.ObjectId.isValid(id); "zz" is not an ObjectId.
ObjectIdValid(id) == id # "zz"

\* ChatRoom.findById(id) finds a chatroom.
ChatroomExists(id) == id \in Room

\* The content check shared by the message endpoints:
\* !content?.trim() || content.length > 1000
BadContent(content) ==
    Falsy(Trim(content)) \/ Length(content) > MaxContentLen

\* newMessage.save() can succeed only if roomId casts to an ObjectId.
CanSave(id, saveOk) == saveOk /\ ObjectIdValid(id)

\* A Message document as stored; `by` is the user the request's credential
\* verifies to (None if it verifies to nobody): what the server could know.
Doc(msg, token) ==
    [id |-> msg.id, roomId |-> msg.roomId, senderId |-> msg.senderId,
     content |-> msg.content, by |-> AuthUser(token)]

Response(status, doc) == [status |-> status, doc |-> doc]

\* POST /:id/messages/direct
PostDirect(id, body, saveOk) ==
    IF Falsy(body.content) \/ body.userId = None THEN Response(400, NoMsg)
    ELSE IF body.userStatus # "approved" THEN Response(403, NoMsg)
    ELSE IF BadContent(body.content) THEN Response(400, NoMsg)
    ELSE IF ~CanSave(id, saveOk) THEN Response(500, NoMsg)
    ELSE Response(201,
            Msg(Len(store) + 1, id, body.userId, Trim(body.content)))

\* req.user; NoUser when no middleware has set it.
ReqUser(userId, status) == [userId |-> userId, status |-> status]
NoUser == ReqUser(None, None)

\* requireApprovedUser: 0 stands for next().
requireApprovedUser(reqUser) ==
    IF reqUser = NoUser THEN 401
    ELSE IF reqUser.status # "approved" THEN 403
    ELSE 0

\* The first handler of POST /:id/messages: req.user taken from the body,
\* or requireApprovedUser on a request no middleware has authenticated.
BodyIdentity(body) ==
    IF body.userId # None /\ body.userStatus = "approved"
    THEN ReqUser(body.userId, body.userStatus)
    ELSE NoUser

\* POST /:id/messages
PostMessages(id, body, saveOk) ==
    IF BodyIdentity(body) = NoUser
    THEN Response(requireApprovedUser(NoUser), NoMsg)
    ELSE IF ~ObjectIdValid(id) THEN Response(400, NoMsg)
    ELSE IF ~ChatroomExists(id) THEN Response(404, NoMsg)
    ELSE IF BadContent(body.content) THEN Response(400, NoMsg)
    ELSE IF ~CanSave(id, saveOk) THEN Response(500, NoMsg)
    ELSE Response(201,
            Msg(Len(store) + 1, id, BodyIdentity(body).userId,
                Trim(body.content)))

\* The effect of a response on the collection.
Save(resp, token) ==
    store' = IF resp.status = 201
             THEN Append(store, Doc(resp.doc, token))
             ELSE store

(***************************************************************************)
(* SocketProvider.sendMessage(roomId, content), called in the browser of   *)
(* socket c.  It runs up to the fetch, which it awaits.                    *)
(***************************************************************************)
\* The browser whose sendMessage calls are followed, the chatroom page it
\* is on, and what is typed there.
SendConns == {"c1"}
SendRooms == {"r1"}
SendContents == {Hello}

sendMessage(c, roomId, content) ==
    /\ cstate[c] = "Ready"                    \* socket && isConnected
    /\ StatusOf(data[c]) = "approved"         \* user.status
    /\ HasBudget
    /\ sends' = Append(sends,
          [conn |-> c, room |-> roomId,
           body |-> Body(Trim(content), data[c], StatusOf(data[c])),
           phase |-> "posted", status |-> 0, doc |-> NoMsg,
           saved |-> None, result |-> None, emitted |-> FALSE])
    /\ UNCHANGED <<cstate, data, rooms, bcasts, inbox, store>>

\* The server answers the request of call a.  The fetch carries neither
\* cookie nor Authorization header.
ServeDirect(a, saveOk) ==
    /\ sends[a].phase = "posted"
    /\ LET resp == PostDirect(sends[a].room, sends[a].body, saveOk) IN
       /\ Save(resp, NoToken)
       /\ sends' = [sends EXCEPT ![a].phase = "responded",
                                 ![a].status = resp.status,
                                 ![a].doc = resp.doc,
                                 ![a].saved = IF resp.status = 201 THEN "ok"
                                              ELSE IF resp.status = 500
                                              THEN "failed" ELSE None]
    /\ UNCHANGED <<cstate, data, rooms, bcasts, inbox>>

\* (variant: the status of the response is not looked at)
ResponseOkUnchecked(status) == TRUE

\* response.ok
ResponseOk(status) == status >= 200 /\ status <= 299

\* sendMessage goes on after the fetch: it throws on a response that is
\* not ok, and otherwise emits the returned document on the socket.  A
\* packet emitted on a socket that is no longer connected reaches no
\* handler.
sendMessageResume(a) ==
    /\ sends[a].phase = "responded"
    /\ IF ResponseOk(sends[a].status)
       THEN /\ IF cstate[sends[a].conn] = "Ready"
               THEN /\ NewMessage(sends[a].conn, sends[a].doc, a)
                    /\ sends' = [sends EXCEPT ![a].phase = "done",
                                              ![a].result = "resolved",
                                              ![a].emitted = TRUE]
               ELSE /\ sends' = [sends EXCEPT ![a].phase = "done",
                                              ![a].result = "resolved"]
                    /\ UNCHANGED <<bcasts, inbox>>
       ELSE /\ sends' = [sends EXCEPT ![a].phase = "done",
                                      ![a].result = "rejected"]
            /\ UNCHANGED <<bcasts, inbox>>
    /\ UNCHANGED <<cstate, data, rooms, store>>

(***************************************************************************)
(* Requests made to the router by any HTTP client.                         *)
(***************************************************************************)
HttpIds == {"r1", "rX", "zz"}
HttpTokens == {NoToken, TokenOf("alice"), TokenOf("carol")}
HttpBodies ==
    { Body(k, u, st) :
        k \in {Empty, Hello, Text(1, 0), Text(1, MaxContentLen)},
        u \in {None, "alice", "carol"},
        st \in {None, "approved", "pending"} }

RequestDirect(id, token, body, saveOk) ==
    /\ Len(store) < MaxStore
    /\ Save(PostDirect(id, body, saveOk), token)
    /\ UNCHANGED <<cstate, data, rooms, bcasts, inbox, sends>>

RequestMessages(id, token, body, saveOk) ==
    /\ Len(store) < MaxStore
    /\ Save(PostMessages(id, body, saveOk), token)
    /\ UNCHANGED <<cstate, data, rooms, bcasts, inbox, sends>>

Next ==
    \/ \E c \in Conn : \E token \in HandshakeTokens(c) :
          Connect(c, token) /\ UNCHANGED browser
    \/ \E c \in Conn : \E r \in Room : JoinRoom(c, r) /\ UNCHANGED browser
    \/ \E c \in Conn : \E r \in Room : LeaveRoom(c, r) /\ UNCHANGED browser
    \/ \E c \in Conn : \E m \in RawPayloads :
          EmitNewMessage(c, m) /\ UNCHANGED browser
    \/ \E c \in Conn : TransportDrop(c) /\ UNCHANGED browser
    \/ \E c \in Conn : Disconnect(c) /\ UNCHANGED browser
    \/ \E c \in SendConns : \E r \in SendRooms : \E k \in SendContents :
          sendMessage(c, r, k) /\ UNCHANGED browser
    \/ \E a \in DOMAIN sends : \E saveOk \in BOOLEAN :
          ServeDirect(a, saveOk) /\ UNCHANGED browser
    \/ \E a \in DOMAIN sends : sendMessageResume(a) /\ UNCHANGED browser

Spec == Init /\ [][Next]_vars

(***************************************************************************)
(* The same system with what the runtime guarantees to happen: the server  *)
(* answers a request it received, the continuation of an awaited fetch     *)
(* runs, and the server closes a socket whose transport has dropped (ping  *)
(* timeout).                                                               *)
(***************************************************************************)
FairSpec ==
    /\ Spec
    /\ WF_vars((\E a \in DOMAIN sends : \E saveOk \in BOOLEAN :
                   ServeDirect(a, saveOk)) /\ UNCHANGED browser)
    /\ WF_vars((\E a \in DOMAIN sends : sendMessageResume(a))
                  /\ UNCHANGED browser)
    /\ WF_vars((\E c \in Conn : cstate[c] = "Stale" /\ Disconnect(c))
                  /\ UNCHANGED browser)

(***************************************************************************)
(* A room in use: the two sockets are connected, alice on the first and    *)
(* bob on the second, and both have joined r1 (the log of emits starts     *)
(* there).                                                                 *)
(***************************************************************************)
InitJoined ==
    /\ cstate = [c \in Conn |-> "Ready"]
    /\ data = [c \in Conn |-> IF c = "c1" THEN "alice" ELSE "bob"]
    /\ rooms = [r \in Room |-> IF r = "r1" THEN Conn ELSE {}]
    /\ bcasts = <<>>
    /\ inbox = [c \in Conn |-> <<>>]
    /\ sends = <<>>
    /\ store = <<>>
    /\ client = NoClient
    /\ replies = <<>>

NextRoom ==
    \/ \E c \in Conn : \E r \in Room : JoinRoom(c, r) /\ UNCHANGED browser
    \/ \E c \in Conn : \E r \in Room : LeaveRoom(c, r) /\ UNCHANGED browser
    \/ \E c \in Conn : \E m \in RawPayloads :
          EmitNewMessage(c, m) /\ UNCHANGED browser
    \/ \E c \in Conn : TransportDrop(c) /\ UNCHANGED browser
    \/ \E c \in Conn : Disconnect(c) /\ UNCHANGED browser
    \/ \E c \in SendConns : \E r \in SendRooms : \E k \in SendContents :
          sendMessage(c, r, k) /\ UNCHANGED browser
    \/ \E a \in DOMAIN sends : \E saveOk \in BOOLEAN :
          ServeDirect(a, saveOk) /\ UNCHANGED browser
    \/ \E a \in DOMAIN sends : sendMessageResume(a) /\ UNCHANGED browser

SpecRoom == InitJoined /\ [][NextRoom]_vars

(***************************************************************************)
(* The router alone, under requests of any client.                         *)
(***************************************************************************)
NextHttp ==
    \/ \E id \in HttpIds : \E token \in HttpTokens : \E body \in HttpBodies :
          \E saveOk \in BOOLEAN :
              RequestDirect(id, token, body, saveOk) /\ UNCHANGED browser
    \/ \E id \in HttpIds : \E token \in HttpTokens : \E body \in HttpBodies :
          \E saveOk \in BOOLEAN :
              RequestMessages(id, token, body, saveOk) /\ UNCHANGED browser

SpecHttp == Init /\ [][NextHttp]_vars

(***************************************************************************)
(* The browser: SocketProvider and ChatroomPage.  React state is changed   *)
(* by event handlers; after each change the components render again and    *)
(* the effects whose dependencies changed run: first the cleanup of the    *)
(* previous run, then the body.  The page effect depends on joinRoom and   *)
(* leaveRoom, which are new functions at every render of the provider, so  *)
(* it runs again at every render of the provider.                          *)
(***************************************************************************)
Browser == "c1"      \* the server-side socket of the followed browser
Peer == "c2"         \* another user's socket
PageRoom == "r1"     \* the :id of the chatroom page
BrowserUser == "alice"
PeerUser == "bob"

\* socket.emit: a packet is written to the transport of an open socket and
\* is kept in the send buffer of a socket that is not open.
ClientEmit(cl, pkts) ==
    IF cl.sock = "open"
    THEN [cl EXCEPT !.out = @ \o pkts]
    ELSE [cl EXCEPT !.buffer = @ \o pkts]

\* The browser may be followed through this step: its packets fit.
Fits(cl) == Len(cl.out) + Len(cl.buffer) <= MaxWire

\* socket.connect(): starts an attempt unless one is under way or done.
SocketConnect(cl) ==
    IF cl.sock \in {"lost", "closed"} THEN [cl EXCEPT !.sock = "opening"] ELSE cl

\* socket.disconnect()
SocketDisconnect(cl, by) ==
    [cl EXCEPT !.sock = "closed", !.closedBy = by, !.out = <<>>]

\* (variant: the page never joins)
JoinNever(approved) == <<>>

\* The page effect with a connected socket: joinRoom(id) for an approved
\* user.
JoinOnConnect(approved) == IF approved THEN <<"join_room">> ELSE <<>>

\* Cleanup of the page effect; wasUser is `user` in the render that set
\* the effect up.
PageCleanup(cl, wasUser) ==
    IF cl.page = "listening"
    THEN [ClientEmit(cl, IF wasUser THEN <<"leave_room">> ELSE <<>>)
             EXCEPT !.page = "idle"]
    ELSE cl

\* Body of the page effect.
PageBody(cl) ==
    IF cl.page = "away" THEN cl
    ELSE IF cl.socket /\ ~cl.isConnected
    THEN [SocketConnect(cl) EXCEPT !.page = "idle"]
    ELSE IF cl.socket /\ cl.isConnected
    THEN [ClientEmit(cl, JoinOnConnect(cl.user)) EXCEPT !.page = "listening"]
    ELSE [cl EXCEPT !.page = "idle"]

\* A render of the provider as seen by the page.
Rerender(cl, wasUser) == PageBody(PageCleanup(cl, wasUser))

\* The provider effect with a user and no socket: it creates the socket
\* (autoConnect) and calls setSocket; `socket` is a dependency of the
\* effect, so the render that follows runs the cleanup of this run, which
\* disconnects the socket just created; the body then returns at once.
ProviderInit ==
    /\ client.user /\ ~client.socket /\ client.sock = "none"
    /\ client' = Rerender(
          SocketDisconnect([client EXCEPT !.socket = TRUE, !.sock = "opening"],
                           "cleanup"),
          TRUE)
    /\ UNCHANGED <<cstate, data, rooms, bcasts, inbox, sends, store, replies>>
    /\ Fits(client')

\* The user opens / leaves the chatroom page.
OpenPage ==
    /\ client.page = "away"
    /\ client' = PageBody([client EXCEPT !.page = "idle", !.fetch = "sent",
                                         !.messages = <<>>])
    /\ UNCHANGED <<cstate, data, rooms, bcasts, inbox, sends, store, replies>>
    /\ Fits(client')

ClosePage ==
    /\ client.page # "away"
    /\ client' = [PageCleanup(client, client.user)
                     EXCEPT !.page = "away", !.fetch = "none",
                            !.joined = FALSE,
                            !.snapshot = <<>>, !.messages = <<>>]
    /\ UNCHANGED <<cstate, data, rooms, bcasts, inbox, sends, store, replies>>
    /\ Fits(client')

\* An attempt succeeds: the middleware accepts the token taken at creation,
\* the send buffer is flushed, "connect" fires.
ClientConnected ==
    /\ client.sock = "opening"
    /\ cstate[Browser] \in {"Connecting", "Disconnected"}
    /\ AuthUser(TokenOf(BrowserUser)) # None
    /\ cstate' = [cstate EXCEPT ![Browser] = "Ready"]
    /\ data' = [data EXCEPT ![Browser] = AuthUser(TokenOf(BrowserUser))]
    /\ client' = Rerender(
          [client EXCEPT !.sock = "open", !.out = client.buffer,
                         !.buffer = <<>>, !.isConnected = TRUE,
                         !.error = FALSE, !.joined = FALSE],
          client.user)
    /\ UNCHANGED <<rooms, bcasts, inbox, sends, store, replies>>
    /\ Fits(client')

\* An attempt fails: "connect_error" sets the error and arms a timer.
ConnectError ==
    /\ client.sock = "opening"
    /\ LET cl == [client EXCEPT !.sock = "lost", !.error = TRUE,
                                !.timer = TRUE]
       IN client' = IF client.error THEN cl ELSE Rerender(cl, client.user)
    /\ UNCHANGED <<cstate, data, rooms, bcasts, inbox, sends, store, replies>>
    /\ Fits(client')

\* The timer of the connect_error handler: socketInstance.connect().
TimerFires ==
    /\ client.timer
    /\ client' = [SocketConnect(client) EXCEPT !.timer = FALSE]
    /\ UNCHANGED <<cstate, data, rooms, bcasts, inbox, sends, store, replies>>

\* The reconnection of socket.io-client (reconnection: true, attempts
\* unlimited by default) after a lost transport or a failed attempt.
AutoReconnect ==
    /\ client.sock = "lost"
    /\ client' = [client EXCEPT !.sock = "opening"]
    /\ UNCHANGED <<cstate, data, rooms, bcasts, inbox, sends, store, replies>>


\* The transport of the open socket drops: the server has not noticed yet;
\* the browser sees "disconnect"; packets on their way are lost.
ClientDrop ==
    /\ client.sock = "open"
    /\ TransportDrop(Browser)
    /\ client' = Rerender(
          [client EXCEPT !.sock = "lost", !.isConnected = FALSE,
                         !.out = <<>>, !.joined = FALSE,
                         !.dropped = TRUE,
                         !.seen = Len(inbox[Browser])],
          client.user)
    /\ UNCHANGED replies
    /\ Fits(client')

\* The user logs out.  The render with no user runs the page effect again
\* and then the provider effect, which disconnects the socket and clears
\* `socket` and `isConnected`; the render that follows runs the page
\* effect once more.
Logout ==
    /\ client.user
    /\ LET noUser == Rerender([client EXCEPT !.user = FALSE], TRUE)
           cleared == [SocketDisconnect(noUser, "logout")
                          EXCEPT !.socket = FALSE, !.isConnected = FALSE,
                                 !.joined = FALSE,
                                 !.seen = Len(inbox[Browser])]
       IN client' = IF noUser.socket THEN Rerender(cleared, FALSE) ELSE noUser
    /\ cstate' = IF client.sock = "open" /\ client.socket
                 THEN [cstate EXCEPT ![Browser] = "Stale"]
                 ELSE cstate
    /\ UNCHANGED <<data, rooms, bcasts, inbox, sends, store, replies>>
    /\ Fits(client')

\* setError while connected (the catch of sendMessage, the "error" event):
\* the provider renders again.
SetError ==
    /\ client.sock = "open" /\ client.isConnected /\ ~client.error
    /\ client' = Rerender([client EXCEPT !.error = TRUE], client.user)
    /\ UNCHANGED <<cstate, data, rooms, bcasts, inbox, sends, store, replies>>
    /\ Fits(client')

\* The server handles the next packet of the browser's socket.
ServePacket ==
    /\ client.out # <<>>
    /\ IF Head(client.out) = "join_room"
       THEN /\ JoinRoom(Browser, PageRoom)
            /\ client' = [client EXCEPT !.out = Tail(@), !.joined = TRUE]
       ELSE /\ LeaveRoom(Browser, PageRoom)
            /\ client' = [client EXCEPT !.out = Tail(@)]
    /\ UNCHANGED replies

\* The other user: connects, joins the room, persists a message over HTTP
\* and emits a persisted message on the socket.
PeerConnect == Connect(Peer, TokenOf(PeerUser)) /\ UNCHANGED browser

PeerPost ==
    /\ store = <<>>
    /\ RequestDirect(PageRoom, NoToken, Body(Hello, PeerUser, "approved"), TRUE)
    /\ UNCHANGED browser

PeerSend ==
    /\ \E j \in DOMAIN store : EmitNewMessage(Peer, StoredMsg(store[j]))
    /\ UNCHANGED browser

\* The server closes the browser's socket after its transport is gone
\* (ping timeout, close packet).
ServerClose ==
    /\ cstate[Browser] = "Stale"
    /\ Disconnect(Browser)
    /\ UNCHANGED browser

(***************************************************************************)
(* The message list of the page.                                           *)
(***************************************************************************)
FetchLimit == 100

Min(a, b) == IF a < b THEN a ELSE b

\* GET /:id/messages: the first FetchLimit documents of the collection in
\* creation order, those of the room kept.
MessagesOf(id) ==
    LET InRoom(d) == d.roomId = id
        all == SubSeq(store, 1, Min(Len(store), FetchLimit))
        kept == SelectSeq(all, InRoom)
    IN [k \in 1..Len(kept) |-> StoredMsg(kept[k])]

\* The answer of the fetch started when the page was opened is computed.
FetchRead ==
    /\ client.fetch = "sent"
    /\ client' = [client EXCEPT !.fetch = "read",
                                !.snapshot = MessagesOf(PageRoom)]
    /\ UNCHANGED <<cstate, data, rooms, bcasts, inbox, sends, store, replies>>

\* setMessages(messagesData.data)
SetMessages(list, fetched) == fetched

FetchApply ==
    /\ client.fetch = "read"
    /\ client' = [client EXCEPT !.fetch = "applied",
                                !.messages = SetMessages(@, client.snapshot)]
    /\ UNCHANGED <<cstate, data, rooms, bcasts, inbox, sends, store, replies>>

\* The next event sent to the browser arrives.  The new_message listener,
\* when registered, appends a message of this chatroom to the list.
OnEvent ==
    /\ client.seen < Len(inbox[Browser])
    /\ LET e == bcasts[inbox[Browser][client.seen + 1]] IN
       client' = [client EXCEPT
          !.seen = @ + 1,
          !.messages = IF /\ client.page = "listening"
                          /\ e.kind = "new_message"
                          /\ e.msg.roomId = PageRoom
                       THEN Append(@, e.msg) ELSE @]
    /\ UNCHANGED <<cstate, data, rooms, bcasts, inbox, sends, store, replies>>

NextClient ==
    \/ ProviderInit
    \/ OpenPage
    \/ ClosePage
    \/ ClientConnected
    \/ ConnectError
    \/ TimerFires
    \/ AutoReconnect
    \/ ClientDrop
    \/ Logout
    \/ SetError
    \/ ServePacket
    \/ PeerConnect
    \/ PeerPost
    \/ PeerSend
    \/ ServerClose

SpecClient == Init /\ [][NextClient]_vars

\* The browser with what its runtime and the server guarantee to happen:
\* a packet written to an open transport is handled, an armed timer fires,
\* the library retries, an attempt ends (either way), the server closes a
\* socket whose transport is gone.
FairSpecClient ==
    /\ SpecClient
    /\ WF_vars(ServePacket)
    /\ WF_vars(TimerFires)
    /\ WF_vars(AutoReconnect)
    /\ WF_vars(ClientConnected \/ ConnectError)
    /\ WF_vars(ServerClose)

(***************************************************************************)
(* The chatroom page of a connected browser: its message list under the    *)
(* history fetch and the incoming events.                                  *)
(***************************************************************************)
NextPage ==
    \/ ProviderInit
    \/ OpenPage
    \/ ClientConnected
    \/ ServePacket
    \/ PeerConnect
    \/ PeerPost
    \/ PeerSend
    \/ FetchRead
    \/ FetchApply
    \/ OnEvent

SpecPage == Init /\ [][NextPage]_vars

(***************************************************************************)
(* Send attempts and their answers: POST /:id/messages as routed in        *)
(* routes/chatrooms.ts, POST /:id/messages/direct, and the guard of the    *)
(* client's sendMessage.  Each answer is logged in `replies`.              *)
(***************************************************************************)
\* req.user when the handler of POST /:id/messages runs: the route has no
\* authenticateUser before requireApprovedUser, so the token is not read.
RouteUser(token) == NoUser

\* The message sent with a refusal of requireApprovedUser or of the status
\* check of the direct endpoint ("" for any other answer).
ErrorText(status) ==
    CASE status = 401 -> "Authentication required"
      [] status = 403 -> "Your account must be approved to perform this action"
      [] OTHER -> ""

\* POST /:id/messages (routes/chatrooms.ts)
RouteMessages(id, token, body, saveOk) ==
    IF requireApprovedUser(RouteUser(token)) # 0
    THEN Response(requireApprovedUser(RouteUser(token)), NoMsg)
    ELSE IF RouteUser(token).userId = None THEN Response(401, NoMsg)
    ELSE IF ~ObjectIdValid(id) THEN Response(500, NoMsg)
    ELSE IF ~ChatroomExists(id) THEN Response(404, NoMsg)
    ELSE IF BadContent(body.content) THEN Response(400, NoMsg)
    ELSE IF ~saveOk THEN Response(500, NoMsg)
    ELSE Response(201,
            Msg(Len(store) + 1, id, RouteUser(token).userId,
                Trim(body.content)))

\* The guard of SocketProvider.sendMessage for a connected, logged-in user:
\* the message of the Error it throws ("" when it goes on).
SendGuard(status) ==
    IF status # "approved" THEN "Cannot send message: User not approved"
    ELSE ""

\* The requests tried: an existing and a missing chatroom; no token or the
\* token of an approved, a pending or a banned user; the body the client of
\* that user would send, with a content that passes or is too long.
ApiIds == {"r1", "rX"}
ApiUsers == {"alice", "carol", "dave"}
ApiContents == {Hello, Text(0, MaxContentLen + 1)}

\* A logged answer: the route, the requester (None without a valid token),
\* whether the request was otherwise valid, the status and message of the
\* answer, and the senderId of the document stored (None if none was).
Reply(route, user, valid, status, text, sender) ==
    [route |-> route, user |-> user, valid |-> valid, status |-> status,
     text |-> text, sender |-> sender]

Log(route, user, valid, resp) ==
    replies' = Append(replies,
        Reply(route, user, valid, resp.status, ErrorText(resp.status),
              IF resp.status = 201 THEN resp.doc.senderId ELSE None))

ApiMessages(id, token, k, saveOk) ==
    /\ Len(replies) < MaxReplies
    /\ LET body == Body(k, None, None)
           resp == RouteMessages(id, token, body, saveOk)
       IN /\ Save(resp, token)
          /\ Log("messages", AuthUser(token),
                 ChatroomExists(id) /\ ~BadContent(k) /\ saveOk, resp)
    /\ UNCHANGED <<cstate, data, rooms, bcasts, inbox, sends, client>>

ApiDirect(id, u, k, saveOk) ==
    /\ Len(replies) < MaxReplies
    /\ LET body == Body(k, u, StatusOf(u))
           resp == PostDirect(id, body, saveOk)
       IN /\ Save(resp, NoToken)
          /\ Log("direct", u, ~BadContent(k) /\ saveOk, resp)
    /\ UNCHANGED <<cstate, data, rooms, bcasts, inbox, sends, client>>

ApiClientSend(u) ==
    /\ Len(replies) < MaxReplies
    /\ replies' = Append(replies,
          Reply("client", u, TRUE, 0, SendGuard(StatusOf(u)), None))
    /\ UNCHANGED <<cstate, data, rooms, bcasts, inbox, sends, store, client>>

NextApi ==
    \/ \E id \in ApiIds : \E u \in ApiUsers : \E k \in ApiContents :
          \E saveOk \in BOOLEAN :
              \/ ApiMessages(id, NoToken, k, saveOk)
              \/ ApiMessages(id, TokenOf(u), k, saveOk)
    \/ \E id \in ApiIds : \E u \in ApiUsers : \E k \in ApiContents :
          \E saveOk \in BOOLEAN : ApiDirect(id, u, k, saveOk)
    \/ \E u \in ApiUsers : ApiClientSend(u)

SpecApi == Init /\ [][NextApi]_vars

(***************************************************************************)
(* Properties.                                                             *)
(***************************************************************************)
Count(seq, x) == Cardinality({k \in DOMAIN seq : seq[k] = x})
Received(c, i) == Count(inbox[c], i) > 0
IsNewMessage(i) == bcasts[i].kind = "new_message"
Approved(cs) == \A c \in cs : StatusOf(data[c]) = "approved"

\* C1 (as claimed): a socket whose user is not approved is a member of no
\* room, whatever join requests it made.
C1_UnapprovedMemberOfNoRoom ==
    \A c \in Conn : \A r \in Room :
        StatusOf(data[c]) # "approved" => c \notin rooms[r]

\* C2 (as claimed): a new_message sent on a socket whose user is not
\* approved is delivered to no socket.
C2_UnapprovedSendNotDelivered ==
    \A i \in DOMAIN bcasts :
        (IsNewMessage(i) /\ StatusOf(data[bcasts[i].from]) # "approved")
            => \A c \in Conn : ~Received(c, i)

\* C3: a sendMessage call whose save failed emits nothing (the server
\* records no emit for it, so no socket gets an event for it) and ends
\* rejected.
C3_NoBroadcastOnPersistenceFailure ==
    \A a \in DOMAIN sends :
        sends[a].saved = "failed" =>
            /\ ~sends[a].emitted
            /\ \A i \in DOMAIN bcasts : bcasts[i].att # a
            /\ sends[a].phase = "done" => sends[a].result = "rejected"

\* C3 witness: a call whose save failed has finished while a connected
\* socket was in its room.
C3_Witness ==
    \E a \in DOMAIN sends :
        /\ sends[a].saved = "failed"
        /\ sends[a].phase = "done"
        /\ \E c \in rooms[sends[a].room] : cstate[c] = "Ready"

\* C4 (as claimed): every new_message event a socket received carries a
\* document of the Message collection.
C4_BroadcastOnlyOfPersisted ==
    \A c \in Conn : \A k \in DOMAIN inbox[c] :
        IsNewMessage(inbox[c][k]) =>
            \E j \in DOMAIN store :
                StoredMsg(store[j]) = bcasts[inbox[c][k]].msg

\* C5 (as claimed): for the broadcast of a successful sendMessage call,
\* every member of the room at that instant received the event exactly
\* once.  (Stated for rooms whose members are all approved users.)
C5_EveryMemberReceivesOnce ==
    \A i \in DOMAIN bcasts :
        (IsNewMessage(i) /\ bcasts[i].att # 0 /\ Approved(bcasts[i].members))
            => \A c \in bcasts[i].members : Count(inbox[c], i) = 1

\* C5 (amended): ... every member whose transport is up at that instant,
\* the sender included, received the event exactly once; a member whose
\* transport had dropped received it zero times.
C5_ConnectedMembersReceiveOnce ==
    \A i \in DOMAIN bcasts :
        (IsNewMessage(i) /\ bcasts[i].att # 0) =>
            \A c \in bcasts[i].members :
                Count(inbox[c], i) = IF c \in bcasts[i].failed THEN 0 ELSE 1

\* C5 witness: a sendMessage call was broadcast to a room of two connected
\* members, one of them the sender.
C5_Witness ==
    \E i \in DOMAIN bcasts :
        /\ IsNewMessage(i) /\ bcasts[i].att # 0
        /\ bcasts[i].from \in bcasts[i].members
        /\ Cardinality(bcasts[i].members) = 2
        /\ Approved(bcasts[i].members)
        /\ bcasts[i].failed = {}
        /\ \A c \in bcasts[i].members : Count(inbox[c], i) = 1

\* C6: the server targets a new_message at exactly the roster of its room
\* at that instant, and no socket outside that roster receives it.
C6_RoomIsolation ==
    \A i \in DOMAIN bcasts :
        IsNewMessage(i) =>
            /\ bcasts[i].targets = bcasts[i].members
            /\ \A c \in Conn : Received(c, i) => c \in bcasts[i].members

\* C6 witness: the last emit is a message some member received while a
\* connected socket sitting in the other room did not.
C6_Witness ==
    /\ bcasts # <<>>
    /\ IsNewMessage(Len(bcasts))
    /\ \E c, d \in Conn :
        /\ Received(d, Len(bcasts))
        /\ cstate[c] = "Ready"
        /\ c \in rooms["r2"] /\ c \notin bcasts[Len(bcasts)].members
        /\ ~Received(c, Len(bcasts))

\* C7: when a message is broadcast while the transport of some member has
\* dropped, every other member receives it once, the member that missed it
\* never gets it later, and the sendMessage call behind it resolves.
C7_FanOutSurvivesFailedDelivery ==
    \A i \in DOMAIN bcasts :
        (IsNewMessage(i) /\ bcasts[i].failed # {}) =>
            /\ \A c \in bcasts[i].members \ bcasts[i].failed :
                  Count(inbox[c], i) = 1
            /\ \A c \in bcasts[i].failed : Count(inbox[c], i) = 0
            /\ (bcasts[i].att # 0 /\ sends[bcasts[i].att].phase = "done")
                  => sends[bcasts[i].att].result = "resolved"

\* C7 witness: a finished sendMessage call was broadcast to a room with a
\* dropped member and a member that received it.
C7_Witness ==
    \E i \in DOMAIN bcasts :
        /\ IsNewMessage(i) /\ bcasts[i].att # 0
        /\ Approved(bcasts[i].members)
        /\ bcasts[i].failed # {}
        /\ \E c \in bcasts[i].members \ bcasts[i].failed : Received(c, i)
        /\ sends[bcasts[i].att].phase = "done"

\* C8: a Disconnected socket is in no room, and no emit made while it is
\* Disconnected targets it.
C8_PurgeOnDisconnect ==
    /\ [](\A c \in Conn : \A r \in Room :
            cstate[c] = "Disconnected" => c \notin rooms[r])
    /\ [][\A c \in Conn :
            (cstate[c] = "Disconnected" /\ Len(bcasts') > Len(bcasts))
                => c \notin bcasts'[Len(bcasts')].targets]_vars

\* C8 witness: a socket joined a room with another member, never left it,
\* is Disconnected, and a later message went to that room.
C8_Witness ==
    \E c \in Conn : \E i, j \in DOMAIN bcasts :
        /\ cstate[c] = "Disconnected"
        /\ bcasts[i].kind = "user_joined" /\ bcasts[i].from = c
        /\ i < j /\ IsNewMessage(j) /\ bcasts[j].room = bcasts[i].room
        /\ bcasts[j].members # {}
        /\ c \notin bcasts[j].members
        /\ \A k \in DOMAIN bcasts :
              ~(bcasts[k].kind = "user_left" /\ bcasts[k].from = c)

\* C9 (as claimed): when a socket goes to Disconnected, the server emits a
\* user_left about it for each room it was a member of.
C9_LeaveNotifiedOnDisconnect ==
    [][\A c \in Conn : \A r \in Room :
          (cstate[c] \in {"Ready", "Stale"} /\ cstate'[c] = "Disconnected"
              /\ c \in rooms[r])
          => \E i \in DOMAIN bcasts' \ DOMAIN bcasts :
                /\ bcasts'[i].kind = "user_left"
                /\ bcasts'[i].room = r
                /\ bcasts'[i].from = c]_vars

\* C10 (as claimed): every stored message was appended for a requester
\* whose credential verifies to an approved user, and that user is its
\* senderId.
C10_AppendOnlyForVerifiedApproved ==
    \A j \in DOMAIN store :
        /\ store[j].by # None
        /\ StatusOf(store[j].by) = "approved"
        /\ store[j].senderId = store[j].by

\* C11 (as claimed): the senderId of every new_message event a socket
\* received is the user the server resolved for the sending socket when it
\* authenticated.  (Stated for approved senders in rooms whose members
\* are all approved users.)
C11_SenderIdIsResolvedIdentity ==
    \A i \in DOMAIN bcasts :
        (/\ IsNewMessage(i)
         /\ Approved(bcasts[i].members \cup {bcasts[i].from})
         /\ \E c \in Conn : Received(c, i))
            => bcasts[i].msg.senderId = data[bcasts[i].from]

\* C12: a socket is Ready (or was, its transport since dropped) only with
\* an existing user attached; a socket the middleware refused has no user,
\* is in no room, received nothing and caused no emit.
C12_NoRegistrationWithoutIdentity ==
    \A c \in Conn :
        /\ cstate[c] \in {"Ready", "Stale"} => data[c] \in Users
        /\ data[c] = None =>
              /\ cstate[c] \in {"Connecting", "Disconnected"}
              /\ \A r \in Room : c \notin rooms[r]
              /\ inbox[c] = <<>>
              /\ \A i \in DOMAIN bcasts :
                    bcasts[i].from # c /\ c \notin bcasts[i].targets

\* C12 witness: a socket was refused by the middleware, and a message was
\* delivered in a room meanwhile.
C12_Witness ==
    \E c \in Conn : \E i \in DOMAIN bcasts :
        /\ cstate[c] = "Disconnected" /\ data[c] = None
        /\ IsNewMessage(i)
        /\ \E d \in Conn : Received(d, i)

\* C13 (as claimed): a join_room by a socket that is already a member of
\* the room changes no roster and delivers no event to any socket.
C13_RepeatedJoinIsNoOp ==
    [][\A c \in Conn : \A r \in Room :
          (/\ c \in rooms[r]
           /\ Len(bcasts') = Len(bcasts) + 1
           /\ bcasts'[Len(bcasts')].kind = "user_joined"
           /\ bcasts'[Len(bcasts')].from = c
           /\ bcasts'[Len(bcasts')].room = r)
          => rooms' = rooms /\ inbox' = inbox]_vars

\* C14 (as claimed): a leave_room by a socket that is not a member of the
\* room changes no roster and delivers no event to any socket.
C14_LeaveByNonMemberIsNoOp ==
    [][\A c \in Conn : \A r \in Room :
          (/\ c \notin rooms[r]
           /\ Len(bcasts') = Len(bcasts) + 1
           /\ bcasts'[Len(bcasts')].kind = "user_left"
           /\ bcasts'[Len(bcasts')].from = c
           /\ bcasts'[Len(bcasts')].room = r)
          => rooms' = rooms /\ inbox' = inbox]_vars

IsMembershipChange(i) == bcasts[i].kind \in {"user_joined", "user_left"}

\* C15 (as claimed): a user_joined / user_left about socket c is received
\* once by every other member of the room at that instant and never by c.
\* (Stated for approved users.)
C15_NotifiesEveryOtherMember ==
    \A i \in DOMAIN bcasts :
        (/\ IsMembershipChange(i)
         /\ Approved(bcasts[i].members \cup {bcasts[i].from}))
            => /\ \A c \in bcasts[i].members \ {bcasts[i].from} :
                    Count(inbox[c], i) = 1
               /\ ~Received(bcasts[i].from, i)

\* C15 (amended): ... is received once by every other member whose
\* transport is up at that instant, by no member whose transport has
\* dropped, and never by c.
C15_NotifiesConnectedOtherMembers ==
    \A i \in DOMAIN bcasts :
        IsMembershipChange(i) =>
            /\ \A c \in bcasts[i].members \ {bcasts[i].from} :
                  Count(inbox[c], i) =
                      IF c \in bcasts[i].failed THEN 0 ELSE 1
            /\ ~Received(bcasts[i].from, i)

\* C15 witness: a socket joined a room and later left it, and the other
\* member of the room received both notifications.
C15_Witness ==
    \E i, j \in DOMAIN bcasts : \E d \in Conn :
        /\ bcasts[i].kind = "user_joined" /\ bcasts[j].kind = "user_left"
        /\ i < j
        /\ bcasts[i].from = bcasts[j].from /\ bcasts[i].room = bcasts[j].room
        /\ d # bcasts[i].from
        /\ d \in bcasts[i].members /\ d \in bcasts[j].members
        /\ Received(d, i) /\ Received(d, j)
        /\ bcasts[i].from \in bcasts[i].members

\* C16: a member of a room at the instant socket c joined it, that receives
\* a message broadcast to the room after c's join, has received c's
\* user_joined before that message.
C16_JoinSeenBeforeLaterMessages ==
    \A i, j \in DOMAIN bcasts :
        (/\ bcasts[i].kind = "user_joined" /\ IsNewMessage(j)
         /\ i < j /\ bcasts[i].room = bcasts[j].room)
            => \A d \in bcasts[i].members \ {bcasts[i].from} :
                  \A q \in DOMAIN inbox[d] :
                      inbox[d][q] = j =>
                          \E p \in 1..(q - 1) : inbox[d][p] = i

\* C16 witness: a member saw a socket join and then received a message
\* that socket sent to the room.
C16_Witness ==
    \E i, j \in DOMAIN bcasts : \E d \in Conn :
        /\ bcasts[i].kind = "user_joined" /\ IsNewMessage(j)
        /\ i < j /\ bcasts[i].room = bcasts[j].room
        /\ bcasts[j].from = bcasts[i].from
        /\ d \in bcasts[i].members \ {bcasts[i].from}
        /\ Received(d, i) /\ Received(d, j)

\* C17 (as claimed): whenever the save of a sendMessage call succeeded, a
\* new_message for that call is eventually emitted by the server.
C17_PersistedEventuallyBroadcast ==
    \A a \in 1..MaxOps :
        (a \in DOMAIN sends /\ sends[a].saved = "ok")
            ~> (\E i \in DOMAIN bcasts :
                    IsNewMessage(i) /\ bcasts[i].att = a)

\* C18 (as claimed): two messages of sendMessage calls made on one socket
\* for one room are broadcast in the order in which they were saved (the
\* id of a document is its position in the collection).
C18_BroadcastOrderFollowsPersistence ==
    \A i, j \in DOMAIN bcasts :
        (/\ IsNewMessage(i) /\ IsNewMessage(j)
         /\ bcasts[i].att # 0 /\ bcasts[j].att # 0
         /\ bcasts[i].from = bcasts[j].from
         /\ bcasts[i].room = bcasts[j].room
         /\ bcasts[i].msg.id < bcasts[j].msg.id)
            => i < j

Joined(c, r) ==
    \E k \in DOMAIN bcasts :
        /\ bcasts[k].kind = "user_joined"
        /\ bcasts[k].from = c /\ bcasts[k].room = r

\* C19: a socket that has not itself joined room r is not a member of r
\* and has received no message and no membership notification of r,
\* whatever rooms other sockets of the same user are or were in.
C19_NoMembershipWithoutOwnJoin ==
    \A c \in Conn : \A r \in Room :
        ~Joined(c, r) =>
            /\ c \notin rooms[r]
            /\ \A k \in DOMAIN inbox[c] : bcasts[inbox[c][k]].room # r

\* C19 witness: a socket of alice joined r1 and is Disconnected; a second
\* socket of alice is connected and has joined nothing; a message was
\* broadcast to r1 after the first socket's join; the second socket has
\* received nothing.
C19_Witness ==
    \E c, d \in Conn : \E i, j \in DOMAIN bcasts :
        /\ c # d /\ data[c] = data[d] /\ data[d] \in Users
        /\ cstate[c] = "Disconnected" /\ cstate[d] = "Ready"
        /\ bcasts[i].kind = "user_joined" /\ bcasts[i].from = c
        /\ i < j /\ IsNewMessage(j) /\ bcasts[j].room = bcasts[i].room
        /\ \A r \in Room : ~Joined(d, r)
        /\ inbox[d] = <<>>

\* C20: a message broadcast to a room before a socket joined it, while
\* the socket was not a member, is never received by that socket.
C20_NoRetroactiveDelivery ==
    \A i, k \in DOMAIN bcasts :
        (/\ IsNewMessage(i) /\ bcasts[k].kind = "user_joined"
         /\ i < k /\ bcasts[k].room = bcasts[i].room
         /\ bcasts[k].from \notin bcasts[i].members)
            => ~Received(bcasts[k].from, i)

\* C20 witness: a message was received by a member of r1; a second socket
\* of the same user then joined r1, is a member, and has not received it.
C20_Witness ==
    \E i, k \in DOMAIN bcasts : \E c \in Conn :
        /\ IsNewMessage(i) /\ bcasts[k].kind = "user_joined"
        /\ i < k /\ bcasts[k].room = bcasts[i].room
        /\ bcasts[k].from \notin bcasts[i].members
        /\ c \in bcasts[i].members /\ Received(c, i)
        /\ data[c] = data[bcasts[k].from]
        /\ bcasts[k].from \in rooms[bcasts[k].room]
        /\ ~Received(bcasts[k].from, i)

\* The browser is on the chatroom page, logged in, with its socket open.
Viewing == client.page # "away" /\ client.user /\ client.sock = "open"

\* C21: whenever the browser is on the page with its socket open (after
\* the first connect or a reconnect), the page effect has run for this
\* connection and the last packet it emitted for the room is a join_room:
\* either such a packet is on its way, last in line, or the server has
\* handled all packets and the connection is a member of the room.  The
\* packets on their way are eventually handled (as far as the run's
\* budget of operations goes).
C21_ClientRejoinsAfterConnect ==
    /\ [](Viewing =>
            /\ client.page = "listening"
            /\ IF client.out = <<>>
               THEN Browser \in rooms[PageRoom]
               ELSE client.out[Len(client.out)] = "join_room")
    /\ []<>(~Viewing \/ Browser \in rooms[PageRoom] \/ ~HasBudget)

\* C21 witness: the transport dropped, the socket is open again, and the
\* new connection is a member of the room with no packet on its way.
C21_Witness ==
    /\ Viewing /\ client.dropped
    /\ client.out = <<>>
    /\ cstate[Browser] = "Ready"
    /\ Browser \in rooms[PageRoom]

\* C22 (as claimed): the retries of the browser are bounded: either an
\* attempt succeeds, or from some point on the socket is at rest with no
\* attempt under way and no reconnect timer armed.
C22_BoundedReconnection ==
    \/ <>(client.sock = "open")
    \/ <>[](client.sock \in {"none", "closed"} /\ ~client.timer)

\* C25 (as claimed): while the user is logged in, no code of the provider
\* has called disconnect() on the socket.
C25_NoDisconnectWhileLoggedIn ==
    client.user => client.closedBy = "none"

\* C26 (as claimed): a socket the provider disconnected at logout stays
\* closed.
C26_ClosedAtLogoutStaysClosed ==
    [][(client.closedBy = "logout" /\ client.sock = "closed")
          => client'.sock = "closed"]_vars

\* C27 (as claimed): a message broadcast to the room while the browser
\* stays on the page with its socket open, after the server handled its
\* join_room, finds the browser's connection in the roster.
C27_MemberWhileViewing ==
    [][(/\ Viewing /\ client.joined /\ cstate[Browser] = "Ready"
        /\ Len(bcasts') = Len(bcasts) + 1
        /\ bcasts'[Len(bcasts')].kind = "new_message"
        /\ bcasts'[Len(bcasts')].room = PageRoom)
          => Browser \in bcasts'[Len(bcasts')].members]_vars

\* C28 (as claimed): once the fetch has been applied and every event sent
\* to the browser has arrived, each persisted message of the room that the
\* fetch returned or that the browser received as an event is in the list
\* of the page exactly once.
C28_EachMessageDisplayedOnce ==
    (/\ client.page = "listening"
     /\ client.fetch = "applied"
     /\ client.seen = Len(inbox[Browser]))
        => \A j \in DOMAIN store :
              (/\ store[j].roomId = PageRoom
               /\ \/ Count(client.snapshot, StoredMsg(store[j])) > 0
                  \/ \E k \in DOMAIN inbox[Browser] :
                        /\ IsNewMessage(inbox[Browser][k])
                        /\ bcasts[inbox[Browser][k]].msg = StoredMsg(store[j]))
                 => Count(client.messages, StoredMsg(store[j])) = 1

\* C23 (as claimed): on each way of sending the client uses (the guard of
\* sendMessage, the direct endpoint), the attempt of a pending user and
\* the attempt of a banned user are refused with different errors.
C23_PendingAndBannedDiffer ==
    \A i, j \in DOMAIN replies :
        (/\ replies[i].route = replies[j].route
         /\ replies[i].route \in {"client", "direct"}
         /\ StatusOf(replies[i].user) = "pending"
         /\ StatusOf(replies[j].user) = "banned")
            => /\ replies[i].text # "" /\ replies[j].text # ""
               /\ <<replies[i].status, replies[i].text>>
                     # <<replies[j].status, replies[j].text>>

\* C24 (as claimed): POST /:id/messages answers 201 and stores one message
\* of the requester for a valid request with the token of an approved
\* user, 403 for the token of a user who is not approved, 401 without a
\* valid token; in the last two cases it stores nothing.
C24_PostMessagesContract ==
    \A i \in DOMAIN replies :
        replies[i].route = "messages" =>
            /\ (StatusOf(replies[i].user) = "approved" /\ replies[i].valid)
                  => /\ replies[i].status = 201
                     /\ replies[i].sender = replies[i].user
            /\ (replies[i].user # None
                   /\ StatusOf(replies[i].user) # "approved")
                  => replies[i].status = 403 /\ replies[i].sender = None
            /\ replies[i].user = None
                  => replies[i].status = 401 /\ replies[i].sender = None

\* C29: in the events a socket received, two messages of one room come in
\* the order in which the server handled them; so any two sockets that
\* received both received them in the same order.
C29_UniformOrder ==
    \A c \in Conn : \A p, q \in DOMAIN inbox[c] :
        (/\ IsNewMessage(inbox[c][p]) /\ IsNewMessage(inbox[c][q])
         /\ bcasts[inbox[c][p]].room = bcasts[inbox[c][q]].room
         /\ inbox[c][p] < inbox[c][q])
            => p < q

\* C29 witness: two sockets both received two messages of a room, sent by
\* different sockets.
C29_Witness ==
    \E i, j \in DOMAIN bcasts :
        /\ i < j /\ IsNewMessage(i) /\ IsNewMessage(j)
        /\ bcasts[i].room = bcasts[j].room
        /\ bcasts[i].from # bcasts[j].from
        /\ \A c \in Conn : Received(c, i) /\ Received(c, j)

\* C30 (as claimed): a message for a room is received once by every
\* member of the room at that instant, whether or not the sending socket
\* is a member, and by the sending socket if and only if it is a member.
\* (Stated for approved users.)
C30_SendIndependentOfMembership ==
    \A i \in DOMAIN bcasts :
        (/\ IsNewMessage(i)
         /\ Approved(bcasts[i].members \cup {bcasts[i].from}))
            => /\ \A c \in bcasts[i].members : Count(inbox[c], i) = 1
               /\ Received(bcasts[i].from, i)
                     <=> bcasts[i].from \in bcasts[i].members

\* C30 (amended): ... is received once by every member whose transport is
\* up at that instant and by no member whose transport has dropped,
\* whether or not the sending socket is a member, and by the sending
\* socket if and only if it is a member.
C30_SendReachesConnectedMembers ==
    \A i \in DOMAIN bcasts :
        IsNewMessage(i) =>
            /\ \A c \in bcasts[i].members :
                  Count(inbox[c], i) =
                      IF c \in bcasts[i].failed THEN 0 ELSE 1
            /\ Received(bcasts[i].from, i)
                  <=> bcasts[i].from \in bcasts[i].members

\* C30 witness: a socket that is in no room sent a message to a room; the
\* member of that room received it and the sender did not.
C30_Witness ==
    \E i \in DOMAIN bcasts : \E c \in Conn :
        /\ IsNewMessage(i)
        /\ bcasts[i].from \notin bcasts[i].members
        /\ \A r \in Room : ~Joined(bcasts[i].from, r)
        /\ c \in bcasts[i].members /\ Received(c, i)
        /\ ~Received(bcasts[i].from, i)
====
